---- MODULE Spec2Model ----
(***************************************************************************)
(* Model of modules/recording/JibriQueue.js: one JibriQueue instance, the  *)
(* connection it sends on, the IQ handler the connection calls back, and   *)
(* the promises returned by join() and leave().                            *)
(*                                                                         *)
(* The instance's own state is hasJoined, metrics, the handler             *)
(* registration and the listeners.  inflight holds the requests given to   *)
(* connection.sendIQ whose callbacks have not run yet.  The remaining      *)
(* variables describe the step that produced the current state: the        *)
(* operation and its argument (call), what it returned (ret), the promise  *)
(* it created or touched (promise), and what it handed to                  *)
(* connection.sendIQ (requests), connection.send (sent) and this.emit      *)
(* (emitted).                                                              *)
(***************************************************************************)
EXTENDS Integers, Sequences, FiniteSets, TLC

\* ---------------------------------------------------------------- bounds
MaxInflight == 2
MaxChildren == 2

\* ------------------------------------------------------------- constants
Undefined == "undefined"
Null == "null"
JibriQueueJID == "jibri-queue@auth.example"
JibriQueueFullJID == "jibri-queue@auth.example/r1"
ForeignJID == "mallory@auth.example"
RoomJID == "room@conference.example"
AlreadyJoined == "The queue is already joined!"
NothingToLeave == "There's no queue to leave!"

Froms == {JibriQueueJID, JibriQueueFullJID, ForeignJID}
IqIds == {"iq1", "iq2"}
Values == {"abc", Null}
TransportErrors == {"timeout", "item-not-found"}
EventNames == {"metrics", "token"}

Element(tagName, text) == [tagName |-> tagName, text |-> text]

Child == {Element("position", "5"), Element("position", "30"), Element("time", "30")}

RECURSIVE SeqsUpTo(_, _)
SeqsUpTo(S, n) ==
    IF n = 0 THEN {<<>>}
    ELSE LET shorter == SeqsUpTo(S, n - 1)
         IN  shorter \cup {Append(s, x) : s \in {q \in shorter : Len(q) = n - 1}, x \in S}

\* Child lists of an info push: every list over Child up to MaxChildren, and
\* some with a second time value or an element that is neither position nor time.
ChildLists ==
    SeqsUpTo(Child, MaxChildren)
    \cup {<<Element("time", "5")>>,
          <<Element("time", "30"), Element("time", "5")>>,
          <<Element("other", "5")>>,
          <<Element("other", "5"), Element("position", "5")>>}

StrayChildren == {<<>>, <<Element("position", "30")>>}

\* An inbound <iq type='set'> stanza.  hasNode says whether it contains a
\* <jibri-queue> element; without one there are no attributes or children.
IQ(f, i, n, a, v, c) ==
    [from |-> f, id |-> i, hasNode |-> n, action |-> a, value |-> v, children |-> c]

NoIQ == IQ(Null, Null, FALSE, Null, Null, <<>>)

\* Stanzas from the queue's own JID carry every shape; the shapes from other
\* senders are the ones that tell the sender check apart.
IQs ==
    {IQ(JibriQueueJID, i, TRUE, "info", Null, c) : i \in IqIds, c \in ChildLists}
    \cup
    {IQ(JibriQueueJID, i, TRUE, "token", v, <<>>) : i \in IqIds, v \in Values}
    \cup
    {IQ(JibriQueueJID, i, TRUE, a, Null, c) : i \in IqIds, a \in {"bogus", Null},
        c \in StrayChildren}
    \cup
    {IQ(f, i, FALSE, Null, Null, <<>>) : f \in Froms, i \in IqIds}
    \cup
    {IQ(f, "iq1", TRUE, a, "abc", <<Element("position", "30")>>) : f \in Froms \ {JibriQueueJID},
        a \in {"info", "token", "bogus"}}

VARIABLES
    hasJoined,          \* this._hasJoined
    metrics,            \* this._metrics
    handlerRegistered,  \* this._connectionHandlerRef is in the connection's handler list
    listeners,          \* event names that have a listener on this EventEmitter
    inflight,           \* promises of the sendIQ requests whose callbacks are still to run
    call,               \* the operation of the last step and its argument
    ret,                \* what it returned
    promise,            \* the promise it created or whose callback it was
    requests,           \* stanzas it handed to connection.sendIQ
    sent,               \* stanzas it handed to connection.send
    emitted             \* this.emit(...) calls it made

vars == <<hasJoined, metrics, handlerRegistered, listeners, inflight, call, ret, promise,
          requests, sent, emitted>>

state == <<hasJoined, metrics, handlerRegistered, listeners>>

\* ------------------------------------------------------------ helpers
\* Strophe.getBareJidFromJid
BareJid(jid) == IF jid = JibriQueueFullJID THEN JibriQueueJID ELSE jid

\* The filter given to connection.addHandler: from = jibriQueueJID with
\* matchBareFromJid.
HandlerMatches(iq) == BareJid(iq.from) = JibriQueueJID

Stanza(type, to, id, action, room, error) ==
    [type |-> type, to |-> to, id |-> id, action |-> action, room |-> room, error |-> error]

JoinRequest == Stanza("set", JibriQueueJID, Null, "join", RoomJID, Null)
LeaveRequest == Stanza("set", JibriQueueJID, Null, "leave", Null, Null)
\* Variant of ResultAck: the acknowledgment does not copy the stanza's id.
ResultAckWithoutId(iq) == Stanza("result", iq.from, Null, Null, Null, Null)

ResultAck(iq) == Stanza("result", iq.from, iq.id, Null, Null, Null)
ErrorAck(iq) == Stanza("error", iq.from, iq.id, Null, Null, "service-unavailable")

Promise(op, st, value) == [op |-> op, state |-> st, value |-> value, rejectCalls |-> 0]

NoPromise == Promise(Null, Null, Null)

\* reject(error) of the promise executor: only a pending promise changes state.
Reject(p, error) ==
    [p EXCEPT !.state = IF p.state = "pending" THEN "rejected" ELSE @,
              !.value = IF p.state = "pending" THEN error ELSE @,
              !.rejectCalls = @ + 1]

\* EventEmitter.emit: the listeners of that event name, if any, receive the payload.
Event(name, payload) == [name |-> name, payload |-> payload, heard |-> name \in listeners]

Call(op, iq, error) == [op |-> op, iq |-> iq, error |-> error]

RemoveAt(s, i) == SubSeq(s, 1, i - 1) \o SubSeq(s, i + 1, Len(s))

\* Variant of ProcessChildren: a position child marks the snapshot as updated
\* without being compared to the stored position.
RECURSIVE ProcessChildrenUncompared(_, _, _)
ProcessChildrenUncompared(children, m, updated) ==
    IF children = <<>> THEN [metrics |-> m, updated |-> updated]
    ELSE LET child == Head(children)
         IN  IF child.tagName = "position"
             THEN ProcessChildrenUncompared(Tail(children),
                                            [m EXCEPT !.position = child.text], TRUE)
             ELSE IF child.tagName = "time" /\ child.text # m.estimatedTimeLeft
             THEN ProcessChildrenUncompared(Tail(children),
                                            [m EXCEPT !.estimatedTimeLeft = child.text], TRUE)
             ELSE ProcessChildrenUncompared(Tail(children), m, updated)

\* Variant of ProcessChildren: the children are taken from the last to the
\* first, so the first child of a field is the one that stays.
RECURSIVE ProcessChildrenBackwards(_, _, _)
ProcessChildrenBackwards(children, m, updated) ==
    IF children = <<>> THEN [metrics |-> m, updated |-> updated]
    ELSE LET child == children[Len(children)]
             rest == SubSeq(children, 1, Len(children) - 1)
         IN  IF child.tagName = "position" /\ child.text # m.position
             THEN ProcessChildrenBackwards(rest, [m EXCEPT !.position = child.text], TRUE)
             ELSE IF child.tagName = "time" /\ child.text # m.estimatedTimeLeft
             THEN ProcessChildrenBackwards(rest, [m EXCEPT !.estimatedTimeLeft = child.text],
                                           TRUE)
             ELSE ProcessChildrenBackwards(rest, m, updated)

\* The for-loop over jibriQueue.children of the 'info' case, in document order.
RECURSIVE ProcessChildren(_, _, _)
ProcessChildren(children, m, updated) ==
    IF children = <<>> THEN [metrics |-> m, updated |-> updated]
    ELSE LET child == Head(children)
         IN  IF child.tagName = "position" /\ child.text # m.position
             THEN ProcessChildren(Tail(children), [m EXCEPT !.position = child.text], TRUE)
             ELSE IF child.tagName = "time" /\ child.text # m.estimatedTimeLeft
             THEN ProcessChildren(Tail(children),
                                  [m EXCEPT !.estimatedTimeLeft = child.text], TRUE)
             ELSE ProcessChildren(Tail(children), m, updated)

\* ------------------------------------------------------------ constructor
Init ==
    /\ hasJoined = FALSE
    /\ metrics = [position |-> Undefined, estimatedTimeLeft |-> Undefined]
    /\ handlerRegistered = TRUE
    /\ listeners = {}
    /\ inflight = <<>>
    /\ call = Call("constructor", NoIQ, Null)
    /\ ret = Undefined
    /\ promise = NoPromise
    /\ requests = <<>>
    /\ sent = <<>>
    /\ emitted = <<>>

\* ------------------------------------------------------------ join()
\* Variant of JoinRejected: the early return is missing and the request goes out.
JoinRejectedSends ==
    /\ hasJoined
    /\ Len(inflight) < MaxInflight
    /\ promise' = Promise("join", "pending", Undefined)
    /\ requests' = <<JoinRequest>>
    /\ inflight' = Append(inflight, promise')

JoinRejected ==
    /\ hasJoined
    /\ promise' = Promise("join", "rejected", AlreadyJoined)
    /\ requests' = <<>>
    /\ UNCHANGED inflight

JoinSend ==
    /\ ~hasJoined
    /\ Len(inflight) < MaxInflight
    /\ promise' = Promise("join", "pending", Undefined)
    /\ requests' = <<JoinRequest>>
    /\ inflight' = Append(inflight, promise')

\* Variant of join: the flag is set when the request is sent, not when it is
\* acknowledged.
JoinSetsJoinedOnSend ==
    /\ (JoinRejected \/ JoinSend)
    /\ hasJoined' = TRUE
    /\ call' = Call("join", NoIQ, Null)
    /\ ret' = "promise"
    /\ sent' = <<>>
    /\ emitted' = <<>>
    /\ UNCHANGED <<metrics, handlerRegistered, listeners>>

join ==
    /\ (JoinRejected \/ JoinSend)
    /\ call' = Call("join", NoIQ, Null)
    /\ ret' = "promise"
    /\ sent' = <<>>
    /\ emitted' = <<>>
    /\ UNCHANGED state

\* success callback given to sendIQ by join()
JoinSuccess(i) ==
    /\ i \in 1..Len(inflight)
    /\ inflight[i].op = "join"
    /\ hasJoined' = TRUE
    /\ promise' = inflight[i]
    /\ inflight' = RemoveAt(inflight, i)
    /\ call' = Call("joinSuccess", NoIQ, Null)
    /\ ret' = Undefined
    /\ requests' = <<>>
    /\ sent' = <<>>
    /\ emitted' = <<>>
    /\ UNCHANGED <<metrics, handlerRegistered, listeners>>

\* Variant of JoinError: the error callback sends the join request again.
JoinErrorRetries(i, error) ==
    /\ i \in 1..Len(inflight)
    /\ inflight[i].op = "join"
    /\ promise' = Reject(inflight[i], error)
    /\ inflight' = Append(RemoveAt(inflight, i), Promise("join", "pending", Undefined))
    /\ call' = Call("joinError", NoIQ, error)
    /\ ret' = Undefined
    /\ requests' = <<JoinRequest>>
    /\ sent' = <<>>
    /\ emitted' = <<>>
    /\ UNCHANGED state

\* error callback given to sendIQ by join()
JoinError(i, error) ==
    /\ i \in 1..Len(inflight)
    /\ inflight[i].op = "join"
    /\ promise' = Reject(inflight[i], error)
    /\ inflight' = RemoveAt(inflight, i)
    /\ call' = Call("joinError", NoIQ, error)
    /\ ret' = Undefined
    /\ requests' = <<>>
    /\ sent' = <<>>
    /\ emitted' = <<>>
    /\ UNCHANGED state

\* ------------------------------------------------------------ leave()
\* Variant of LeaveRejected: the early return is missing and the request goes out.
LeaveRejectedSends ==
    /\ ~hasJoined
    /\ Len(inflight) < MaxInflight
    /\ promise' = Promise("leave", "pending", Undefined)
    /\ requests' = <<LeaveRequest>>
    /\ inflight' = Append(inflight, promise')

LeaveRejected ==
    /\ ~hasJoined
    /\ promise' = Promise("leave", "rejected", NothingToLeave)
    /\ requests' = <<>>
    /\ UNCHANGED inflight

LeaveSend ==
    /\ hasJoined
    /\ Len(inflight) < MaxInflight
    /\ promise' = Promise("leave", "pending", Undefined)
    /\ requests' = <<LeaveRequest>>
    /\ inflight' = Append(inflight, promise')

leave ==
    /\ (LeaveRejected \/ LeaveSend)
    /\ call' = Call("leave", NoIQ, Null)
    /\ ret' = "promise"
    /\ sent' = <<>>
    /\ emitted' = <<>>
    /\ UNCHANGED state

\* Variant of LeaveSuccess: the success callback of leave() clears the flag.
LeaveSuccessClearsJoined(i) ==
    /\ i \in 1..Len(inflight)
    /\ inflight[i].op = "leave"
    /\ hasJoined' = FALSE
    /\ promise' = inflight[i]
    /\ inflight' = RemoveAt(inflight, i)
    /\ call' = Call("leaveSuccess", NoIQ, Null)
    /\ ret' = Undefined
    /\ requests' = <<>>
    /\ sent' = <<>>
    /\ emitted' = <<>>
    /\ UNCHANGED <<metrics, handlerRegistered, listeners>>

\* success callback given to sendIQ by leave()
LeaveSuccess(i) ==
    /\ i \in 1..Len(inflight)
    /\ inflight[i].op = "leave"
    /\ promise' = inflight[i]
    /\ inflight' = RemoveAt(inflight, i)
    /\ call' = Call("leaveSuccess", NoIQ, Null)
    /\ ret' = Undefined
    /\ requests' = <<>>
    /\ sent' = <<>>
    /\ emitted' = <<>>
    /\ UNCHANGED state

\* error callback given to sendIQ by leave()
LeaveError(i, error) ==
    /\ i \in 1..Len(inflight)
    /\ inflight[i].op = "leave"
    /\ promise' = Reject(inflight[i], error)
    /\ inflight' = RemoveAt(inflight, i)
    /\ call' = Call("leaveError", NoIQ, error)
    /\ ret' = Undefined
    /\ requests' = <<>>
    /\ sent' = <<>>
    /\ emitted' = <<>>
    /\ UNCHANGED state

\* ------------------------------------------------------------ _onIQ(iq)
\* Variant of Valid: the sender is not compared to the queue's JID.
ValidIgnoringSender(iq) == iq.hasNode

\* Passes the sender / payload check of _onIQ.
Valid(iq) == iq.from = JibriQueueJID /\ iq.hasNode

\* Variant of OnIQNotJoined: the stanza is acknowledged although not joined.
OnIQNotJoinedAcks(iq) ==
    /\ ~hasJoined
    /\ ret' = "true"
    /\ sent' = <<ResultAck(iq)>>
    /\ emitted' = <<>>
    /\ UNCHANGED metrics

OnIQNotJoined(iq) ==
    /\ ~hasJoined
    /\ ret' = Undefined
    /\ sent' = <<>>
    /\ emitted' = <<>>
    /\ UNCHANGED metrics

\* Variant of OnIQInvalid: the early return reports the stanza as handled.
OnIQInvalidHandled(iq) ==
    /\ hasJoined
    /\ ~Valid(iq)
    /\ ret' = "true"
    /\ sent' = <<>>
    /\ emitted' = <<>>
    /\ UNCHANGED metrics

OnIQInvalid(iq) ==
    /\ hasJoined
    /\ ~Valid(iq)
    /\ ret' = Undefined
    /\ sent' = <<>>
    /\ emitted' = <<>>
    /\ UNCHANGED metrics

\* Variant of OnIQInfo: the event carries the snapshot as it was before the
\* children were processed.
OnIQInfoEmitsStale(iq) ==
    /\ hasJoined
    /\ Valid(iq)
    /\ iq.action = "info"
    /\ LET r == ProcessChildren(iq.children, metrics, FALSE)
       IN  /\ metrics' = r.metrics
           /\ emitted' = IF r.updated THEN <<Event("metrics", metrics)>> ELSE <<>>
    /\ sent' = <<ResultAck(iq)>>
    /\ ret' = "true"

OnIQInfo(iq) ==
    /\ hasJoined
    /\ Valid(iq)
    /\ iq.action = "info"
    /\ LET r == ProcessChildren(iq.children, metrics, FALSE)
       IN  /\ metrics' = r.metrics
           /\ emitted' = IF r.updated THEN <<Event("metrics", r.metrics)>> ELSE <<>>
    /\ sent' = <<ResultAck(iq)>>
    /\ ret' = "true"

\* Variant of OnIQToken: a token equal to the one just emitted is not emitted
\* again.
OnIQTokenDeduplicated(iq) ==
    /\ hasJoined
    /\ Valid(iq)
    /\ iq.action = "token"
    /\ emitted' = IF emitted # <<>> /\ emitted[1].name = "token"
                      /\ emitted[1].payload = iq.value
                   THEN <<>>
                   ELSE <<Event("token", iq.value)>>
    /\ sent' = <<ResultAck(iq)>>
    /\ ret' = "true"
    /\ UNCHANGED metrics

OnIQToken(iq) ==
    /\ hasJoined
    /\ Valid(iq)
    /\ iq.action = "token"
    /\ emitted' = <<Event("token", iq.value)>>
    /\ sent' = <<ResultAck(iq)>>
    /\ ret' = "true"
    /\ UNCHANGED metrics

\* Variant of OnIQDefault: the acknowledgment is not turned into an error.
OnIQDefaultPlainAck(iq) ==
    /\ hasJoined
    /\ Valid(iq)
    /\ iq.action \notin {"info", "token"}
    /\ emitted' = <<>>
    /\ sent' = <<ResultAck(iq)>>
    /\ ret' = "true"
    /\ UNCHANGED metrics

OnIQDefault(iq) ==
    /\ hasJoined
    /\ Valid(iq)
    /\ iq.action \notin {"info", "token"}
    /\ emitted' = <<>>
    /\ sent' = <<ErrorAck(iq)>>
    /\ ret' = "true"
    /\ UNCHANGED metrics

\* The connection calls the registered handler for a matching stanza.
_onIQ(iq) ==
    /\ handlerRegistered
    /\ HandlerMatches(iq)
    /\ \/ OnIQNotJoined(iq)
       \/ OnIQInvalid(iq)
       \/ OnIQInfo(iq)
       \/ OnIQToken(iq)
       \/ OnIQDefault(iq)
    /\ call' = Call("_onIQ", iq, Null)
    /\ promise' = NoPromise
    /\ requests' = <<>>
    /\ UNCHANGED <<hasJoined, handlerRegistered, listeners, inflight>>

\* ------------------------------------------------------------ dispose()
\* Variant of dispose: the requests in flight are dropped, so that their
\* callbacks never run.
disposeCancels ==
    /\ handlerRegistered' = FALSE
    /\ listeners' = {}
    /\ inflight' = <<>>
    /\ call' = Call("dispose", NoIQ, Null)
    /\ ret' = Undefined
    /\ promise' = NoPromise
    /\ requests' = <<>>
    /\ sent' = <<>>
    /\ emitted' = <<>>
    /\ UNCHANGED <<hasJoined, metrics>>

\* Variant of dispose: the listeners are removed but the handler stays
\* registered with the connection.
disposeKeepsHandler ==
    /\ listeners' = {}
    /\ call' = Call("dispose", NoIQ, Null)
    /\ ret' = Undefined
    /\ promise' = NoPromise
    /\ requests' = <<>>
    /\ sent' = <<>>
    /\ emitted' = <<>>
    /\ UNCHANGED <<hasJoined, metrics, handlerRegistered, inflight>>

dispose ==
    /\ handlerRegistered' = FALSE
    /\ listeners' = {}
    /\ call' = Call("dispose", NoIQ, Null)
    /\ ret' = Undefined
    /\ promise' = NoPromise
    /\ requests' = <<>>
    /\ sent' = <<>>
    /\ emitted' = <<>>
    /\ UNCHANGED <<hasJoined, metrics, inflight>>

\* EventEmitter.on(name, listener), inherited
on(name) ==
    /\ name \notin listeners
    /\ listeners' = listeners \cup {name}
    /\ call' = Call("on", NoIQ, Null)
    /\ ret' = Undefined
    /\ promise' = NoPromise
    /\ requests' = <<>>
    /\ sent' = <<>>
    /\ emitted' = <<>>
    /\ UNCHANGED <<hasJoined, metrics, handlerRegistered, inflight>>

Next ==
    \/ join
    \/ leave
    \/ \E i \in 1..MaxInflight : JoinSuccess(i)
    \/ \E i \in 1..MaxInflight, e \in TransportErrors : JoinError(i, e)
    \/ \E i \in 1..MaxInflight : LeaveSuccess(i)
    \/ \E i \in 1..MaxInflight, e \in TransportErrors : LeaveError(i, e)
    \/ \E iq \in IQs : _onIQ(iq)
    \/ dispose
    \/ \E name \in EventNames : on(name)

Spec == Init /\ [][Next]_vars

\* ================================================================ claims
IsOnIQ(c) == c.op = "_onIQ"

\* Every position / time child of the stanza carries the value stored in m.
NoChildDiffers(iq, m) ==
    \A k \in 1..Len(iq.children) :
        /\ iq.children[k].tagName = "position" => iq.children[k].text = m.position
        /\ iq.children[k].tagName = "time" => iq.children[k].text = m.estimatedTimeLeft

\* C1: a join() call made while the flag is joined returns a promise rejected
\* with the 'already joined' error, hands nothing to sendIQ and leaves the
\* flag, the metrics and the requests in flight as they were.
C1_JoinWhileJoinedRejected ==
    [][(hasJoined /\ call'.op = "join") =>
          /\ promise' = Promise("join", "rejected", AlreadyJoined)
          /\ requests' = <<>>
          /\ sent' = <<>>
          /\ inflight' = inflight
          /\ hasJoined' = hasJoined
          /\ metrics' = metrics]_vars

C1_Witness ==
    /\ call.op = "join"
    /\ hasJoined
    /\ promise.state = "rejected"
    /\ promise.value = AlreadyJoined

\* C2: a leave() call made while the flag is not-joined returns a promise
\* rejected with the 'nothing to leave' error, hands nothing to sendIQ and
\* leaves the state as it was; so also while a join request is in flight.
C2_LeaveWhileNotJoinedRejected ==
    [][(~hasJoined /\ call'.op = "leave") =>
          /\ promise' = Promise("leave", "rejected", NothingToLeave)
          /\ requests' = <<>>
          /\ sent' = <<>>
          /\ inflight' = inflight
          /\ state' = state]_vars

C2_Witness ==
    /\ call.op = "leave"
    /\ ~hasJoined
    /\ promise.value = NothingToLeave
    /\ Len(inflight) > 0

\* C3: once the success callback of a join or leave request has run, the
\* promise returned for that request is resolved.
C3_ResolvedOnSuccess ==
    call.op \in {"joinSuccess", "leaveSuccess"} => promise.state = "resolved"

C5_NotJoinedAfterLeaveOrDispose ==
    call.op \in {"leave", "dispose"} => ~hasJoined

\* C6: the flag starts not-joined, and a step that takes it from not-joined
\* to joined is the success callback of a join request.
C6_OnlyJoinSuccessSetsJoined ==
    /\ ~hasJoined
    /\ [][(~hasJoined /\ hasJoined') =>
             (call'.op = "joinSuccess" /\ promise'.op = "join")]_vars

C6_Witness ==
    /\ hasJoined
    /\ call.op = "joinSuccess"

\* C7: a stanza of any action delivered to _onIQ while the flag is not-joined
\* is not acknowledged, emits no event and leaves the metrics as they were.
C7_NotJoinedPushDropped ==
    [][(~hasJoined /\ IsOnIQ(call')) =>
          /\ sent' = <<>>
          /\ emitted' = <<>>
          /\ requests' = <<>>
          /\ metrics' = metrics
          /\ ~hasJoined']_vars

C7_Witness ==
    /\ IsOnIQ(call)
    /\ ~hasJoined
    /\ Len(inflight) > 0
    /\ Valid(call.iq)
    /\ call.iq.action = "info"
    /\ call.iq.children # <<>>

\* C8: a stanza delivered while joined that passes the sender and payload
\* check is acknowledged with one stanza, addressed to its sender and with
\* its id; and a step sends an acknowledgment only for such a stanza, never
\* more than one.
C8_ValidatedPushAckedOnce ==
    [][/\ (hasJoined /\ IsOnIQ(call') /\ Valid(call'.iq)) =>
            /\ Len(sent') = 1
            /\ sent'[1].type \in {"result", "error"}
            /\ sent'[1].to = call'.iq.from
            /\ sent'[1].id = call'.iq.id
       /\ sent' # <<>> => (hasJoined /\ IsOnIQ(call') /\ Valid(call'.iq))]_vars

C8_Witness ==
    /\ IsOnIQ(call)
    /\ call.iq.id = "iq2"
    /\ call.iq.action = "token"
    /\ Len(sent) = 1
    /\ sent[1].id = "iq2"
    /\ sent[1].to = JibriQueueJID

\* C9: a validated stanza processed while joined whose action is neither info
\* nor token (or is missing) gets one acknowledgment of type error with the
\* service-unavailable condition, emits nothing and leaves the metrics as
\* they were; an info or token stanza gets an acknowledgment of type result.
C9_UnknownActionErrorAck ==
    [][(hasJoined /\ IsOnIQ(call') /\ Valid(call'.iq)) =>
          IF call'.iq.action \in {"info", "token"}
          THEN /\ Len(sent') = 1
               /\ sent'[1].type = "result"
               /\ sent'[1].error = Null
          ELSE /\ Len(sent') = 1
               /\ sent'[1].type = "error"
               /\ sent'[1].error = "service-unavailable"
               /\ emitted' = <<>>
               /\ metrics' = metrics]_vars

C9_Witness ==
    /\ IsOnIQ(call)
    /\ hasJoined
    /\ Valid(call.iq)
    /\ call.iq.action = Null
    /\ call.iq.children # <<>>
    /\ Len(sent) = 1
    /\ sent[1].type = "error"

\* C10: an info stanza processed while joined in which no position or time
\* child differs from the stored value of its field (also one without
\* children) emits no metrics event and leaves the metrics as they were.
C10_UnchangedInfoEmitsNothing ==
    [][(/\ hasJoined
        /\ IsOnIQ(call')
        /\ Valid(call'.iq)
        /\ call'.iq.action = "info"
        /\ NoChildDiffers(call'.iq, metrics)) =>
          /\ emitted' = <<>>
          /\ metrics' = metrics]_vars

C10_Witness ==
    /\ IsOnIQ(call)
    /\ hasJoined
    /\ Valid(call.iq)
    /\ call.iq.action = "info"
    /\ Len(call.iq.children) = 2
    /\ call.iq.children[1].tagName = "position"
    /\ call.iq.children[2].tagName = "time"
    /\ NoChildDiffers(call.iq, metrics)
    /\ emitted = <<>>

\* A stanza that passes the sender and payload check, as the claims state it.
Validated(iq) == iq.from = JibriQueueJID /\ iq.hasNode

IsInfoPush(c) == IsOnIQ(c) /\ Validated(c.iq) /\ c.iq.action = "info"

IsTokenPush(c) == IsOnIQ(c) /\ Validated(c.iq) /\ c.iq.action = "token"

\* C11: an info stanza processed while joined that changes the stored
\* snapshot emits one metrics event, whose payload is the whole snapshot as
\* it is after all children were processed; so with position 5 stored, a
\* push with position 5 and time 30 emits one event carrying position 5 and
\* estimatedTimeLeft 30.
C11_ChangedInfoEmitsOneSnapshot ==
    [][(hasJoined /\ IsInfoPush(call') /\ metrics' # metrics) =>
          /\ Len(emitted') = 1
          /\ emitted'[1].name = "metrics"
          /\ emitted'[1].payload = metrics'
          /\ (/\ metrics.position = "5"
              /\ call'.iq.children = <<Element("position", "5"), Element("time", "30")>>) =>
                emitted'[1].payload = [position |-> "5", estimatedTimeLeft |-> "30"]]_vars

C11_Witness ==
    /\ hasJoined
    /\ IsInfoPush(call)
    /\ call.iq.children = <<Element("time", "30")>>
    /\ Len(emitted) = 1
    /\ emitted[1].name = "metrics"
    /\ emitted[1].payload = [position |-> "5", estimatedTimeLeft |-> "30"]

\* C12: a validated token stanza processed while joined emits one token event
\* carrying the stanza's value attribute, whatever was emitted before, emits
\* no metrics event and leaves the metrics as they were.
C12_TokenAlwaysEmitted ==
    [][(hasJoined /\ IsTokenPush(call')) =>
          /\ Len(emitted') = 1
          /\ emitted'[1].name = "token"
          /\ emitted'[1].payload = call'.iq.value
          /\ metrics' = metrics]_vars

C12_Witness ==
    /\ hasJoined
    /\ IsTokenPush(call)
    /\ call.iq.value = "abc"
    /\ emitted = <<Event("token", "abc")>>
    /\ metrics.position = "5"

\* C13: the handler is registered once the instance is constructed; dispose()
\* unregisters it and removes every listener, whatever the flag; and once it
\* is unregistered it stays so, no step is a handler invocation, nothing is
\* handed to connection.send and no event is emitted.
C13_DisposedHandlesNothing ==
    /\ handlerRegistered = TRUE
    /\ [][/\ call'.op = "dispose" => (~handlerRegistered' /\ listeners' = {})
          /\ ~handlerRegistered =>
                /\ ~handlerRegistered'
                /\ ~IsOnIQ(call')
                /\ sent' = <<>>
                /\ emitted' = <<>>]_vars

C13_Witness ==
    /\ ~handlerRegistered
    /\ hasJoined
    /\ call.op = "on"
    /\ listeners = EventNames

\* C14: a stanza delivered while joined whose sender is not the queue's JID,
\* or that has no jibri-queue element, is dropped: no acknowledgment, no
\* event, no handled indication, and the flag, the metrics, the registration
\* and the listeners are as they were.
C14_InvalidPushDropped ==
    [][(hasJoined /\ IsOnIQ(call') /\ ~Validated(call'.iq)) =>
          /\ sent' = <<>>
          /\ emitted' = <<>>
          /\ requests' = <<>>
          /\ ret' = Undefined
          /\ inflight' = inflight
          /\ state' = state]_vars

C14_Witness ==
    /\ hasJoined
    /\ IsOnIQ(call)
    /\ call.iq.from = JibriQueueFullJID
    /\ call.iq.hasNode
    /\ call.iq.action = "info"
    /\ sent = <<>>
    /\ metrics.position = "5"

\* C15: an info stanza processed while joined emits a metrics event only if
\* the stored snapshot after the stanza differs from the one before it.
C15_EventOnlyIfSnapshotDiffers ==
    [][(hasJoined /\ IsInfoPush(call') /\ emitted' # <<>>) => metrics' # metrics]_vars

\* C16: the flag, once joined, stays joined in every later step; the success
\* callback of leave() changes neither the flag nor the metrics, and after
\* it join() is still rejected without a request while leave() sends one.
C16_JoinedStaysJoined ==
    [][/\ hasJoined => hasJoined'
       /\ call'.op = "leaveSuccess" =>
            (hasJoined /\ state' = state /\ requests' = <<>> /\ promise'.op = "leave")
       /\ (call.op = "leaveSuccess" /\ call'.op = "join") =>
            (promise'.value = AlreadyJoined /\ requests' = <<>>)
       /\ (call.op = "leaveSuccess" /\ call'.op = "leave") =>
            (requests' = <<LeaveRequest>> /\ promise'.state = "pending")
       /\ (call.op = "leaveSuccess" /\ IsOnIQ(call') /\ Validated(call'.iq)) =>
            Len(sent') = 1]_vars

C16_Witness ==
    /\ call.op = "leaveSuccess"
    /\ hasJoined
    /\ handlerRegistered
    /\ inflight = <<>>

\* The text of the last child of children with that tag name, or previous
\* when there is none.
RECURSIVE LastText(_, _, _)
LastText(children, tagName, previous) ==
    IF children = <<>> THEN previous
    ELSE LET child == children[Len(children)]
         IN  IF child.tagName = tagName THEN child.text
             ELSE LastText(SubSeq(children, 1, Len(children) - 1), tagName, previous)

\* C17: after an info stanza processed while joined the stored position is
\* the text of the stanza's last position child and the stored
\* estimatedTimeLeft the text of its last time child; a field without a child
\* in the stanza keeps its value.
C17_LastChildWins ==
    [][(hasJoined /\ IsInfoPush(call')) =>
          /\ metrics'.position = LastText(call'.iq.children, "position", metrics.position)
          /\ metrics'.estimatedTimeLeft =
                LastText(call'.iq.children, "time", metrics.estimatedTimeLeft)]_vars

C17_Witness ==
    /\ hasJoined
    /\ IsInfoPush(call)
    /\ call.iq.children = <<Element("position", "5"), Element("position", "30")>>
    /\ metrics.position = "30"
    /\ metrics.estimatedTimeLeft = "5"

JoinsInFlight == {i \in 1..Len(inflight) : inflight[i].op = "join"}

\* C18: at most one join request is in flight at any time.
C18_OneJoinInFlight == Cardinality(JoinsInFlight) <= 1

\* C19: dispose() leaves the requests in flight, the flag and the metrics as
\* they were, and the success callback of a join request that runs right
\* after dispose(), or at any time on a disposed instance, sets the flag.
C19_DisposeCancelsNothing ==
    [][/\ call'.op = "dispose" =>
            (inflight' = inflight /\ hasJoined' = hasJoined /\ metrics' = metrics)
       /\ (~handlerRegistered /\ call'.op = "joinSuccess") =>
            (hasJoined' /\ Len(inflight') = Len(inflight) - 1)]_vars

C19_DisposedWithJoinInFlight ==
    /\ call.op = "dispose"
    /\ ~hasJoined
    /\ JoinsInFlight # {}

C19_Witness ==
    /\ call.op = "joinSuccess"
    /\ ~handlerRegistered
    /\ hasJoined

\* C20: _onIQ returns true exactly when it handed an acknowledgment to
\* connection.send; on the not-joined path and on the wrong-sender or
\* missing-payload path it does neither.
C20_HandledIffAcked ==
    IsOnIQ(call) =>
        /\ ret \in {"true", Undefined}
        /\ ret = "true" <=> Len(sent) = 1
        /\ Len(sent) <= 1
        /\ (~hasJoined \/ ~Validated(call.iq)) => (ret = Undefined /\ sent = <<>>)

C20_Witness ==
    /\ IsOnIQ(call)
    /\ hasJoined
    /\ ~call.iq.hasNode
    /\ call.iq.from = JibriQueueJID
    /\ ret = Undefined
    /\ sent = <<>>

TypeOK ==
    /\ hasJoined \in BOOLEAN
    /\ handlerRegistered \in BOOLEAN
    /\ listeners \subseteq EventNames
    /\ Len(inflight) <= MaxInflight
====
